---------------------------- MODULE Spec2Model ----------------------------
(***************************************************************************)
(* Model of src/election_dashboard.py: one rendering pass of the election  *)
(* dashboard script.  The script is a straight line of stages              *)
(*   load -> kpi -> map -> rank -> melt -> lga -> hist -> done             *)
(* and any uncaught Python exception ends the pass ("aborted"); what was   *)
(* emitted to the page before the exception stays emitted.                 *)
(*                                                                         *)
(* Data representation.                                                    *)
(*   - a table is [columns |-> set of column names,                        *)
(*                 rows    |-> sequence of rows],                          *)
(*     a row is a function from the table's column names to cell values;   *)
(*   - a float cell that may be missing is NaN == <<>> or Num(v) == <<v>>; *)
(*   - Global_Composite_Score is counted in eighths (Num(3) is 0.375), so  *)
(*     that every score and every sum of scores is an exact double;        *)
(*   - a quotient or product the program computes in float64 is computed   *)
(*     here as a double too: a Float is [bits, top], the significant bits  *)
(*     (most significant first, bits[1] = 1) and the power of two of the   *)
(*     first bit, rounded to 53 bits, ties to even, after each operation;  *)
(*   - a value rounded to 2 decimals is counted in hundredths.             *)
(***************************************************************************)
EXTENDS Integers, Sequences, FiniteSets, TLC

VARIABLES
    remote,                     \* what the CSV URL serves (input)
    df,                         \* the loaded table
    pc,                         \* position of the script
    err,                        \* the exception that ended the pass, or "none"
    rendered,                   \* views emitted to the page, in order
    kpi,                        \* the five KPI scalars
    map,                        \* folium map: location, markers, heat layer
    top_5_outliers,             \* rows of the Top-5 table
    z_df,                       \* long-format z-score table
    lga_comparison,             \* LGA rollup
    historical_election_data    \* historical series

vars == <<remote, df, pc, err, rendered, kpi, map, top_5_outliers, z_df,
          lga_comparison, historical_election_data>>

---------------------------------------------------------------------------
(* Bounds of the model *)

\* Rows of a table whose rows vary in several columns.
MaxRows == 3

\* Rows of a table whose rows vary in LGA and score: enough for an LGA with
\* two scores and a missing one beside an LGA without any score.
MaxLgaRows == 4

\* Rows of a table whose rows vary in Global_Composite_Score only; above the
\* 5 of head(5), so that the ranking truncates.
MaxRankRows == 6

---------------------------------------------------------------------------
(* Cells *)

NaN == <<>>

Num(v) == <<v>>

IsNaN(x) == x = NaN

Val(x) == x[1]

Range(s) == {s[i] : i \in DOMAIN s}

---------------------------------------------------------------------------
(* float64 arithmetic on positive values.  Long integers are sequences of  *)
(* limbs in base 1024, most significant first; the operands of a division *)
(* are integers below 2^21.                                               *)

RECURSIVE Pow2(_)
Pow2(n) == IF n = 0 THEN 1 ELSE 2 * Pow2(n - 1)

RECURSIVE BitsToInt(_)
BitsToInt(b) ==
    IF b = <<>> THEN 0 ELSE 2 * BitsToInt(SubSeq(b, 1, Len(b) - 1)) + b[Len(b)]

RECURSIVE IntLimbs(_)
\* The limbs of the integer n; <<>> for 0.
IntLimbs(n) == IF n = 0 THEN <<>> ELSE Append(IntLimbs(n \div 1024), n % 1024)

\* The bits of the long integer L, most significant first, from its first 1.
LimbBits(L) ==
    LET all == [i \in 1..(10 * Len(L)) |->
                   (L[((i - 1) \div 10) + 1] \div Pow2(9 - ((i - 1) % 10))) % 2]
        ones == {i \in DOMAIN all : all[i] = 1}
    IN  IF ones = {} THEN <<>>
        ELSE SubSeq(all, CHOOSE i \in ones : \A j \in ones : i <= j, Len(all))

\* The long integer of the bits b.
BitLimbs(b) ==
    LET n == (Len(b) + 9) \div 10
        pad == 10 * n - Len(b)
    IN  [k \in 1..n |->
            BitsToInt([j \in 1..10 |->
                          LET i == 10 * (k - 1) + j - pad
                          IN  IF i < 1 THEN 0 ELSE b[i]])]

RECURSIVE LongDiv(_, _)
\* Quotient and remainder of the long integer L by d.
LongDiv(L, d) ==
    IF L = <<>> THEN [q |-> <<>>, r |-> 0]
    ELSE LET h == LongDiv(SubSeq(L, 1, Len(L) - 1), d)
             cur == h.r * 1024 + L[Len(L)]
         IN  [q |-> Append(h.q, cur \div d), r |-> cur % d]

RECURSIVE LongMul(_, _, _)
\* The long integer L * c + carry.
LongMul(L, c, carry) ==
    IF L = <<>> THEN IntLimbs(carry)
    ELSE LET t == L[Len(L)] * c + carry
         IN  Append(LongMul(SubSeq(L, 1, Len(L) - 1), c, t \div 1024), t % 1024)

\* b + 1; one bit longer when b is all ones.
IncBits(b) ==
    LET zeros == {i \in DOMAIN b : b[i] = 0}
    IN  IF zeros = {} THEN <<1>> \o [i \in DOMAIN b |-> 0]
        ELSE LET z == CHOOSE i \in zeros : \A j \in zeros : j <= i
             IN  [i \in DOMAIN b |-> IF i < z THEN b[i] ELSE IF i = z THEN 1 ELSE 0]

\* The value [bits, top], followed by nonzero bits iff sticky, rounded to the
\* 53 bits of a double, ties to even.
Round53(x, sticky) ==
    IF Len(x.bits) <= 53 THEN x
    ELSE LET kept == SubSeq(x.bits, 1, 53)
             rest == sticky \/ \E k \in 55..Len(x.bits) : x.bits[k] = 1
             up == x.bits[54] = 1 /\ (rest \/ kept[53] = 1)
             inc == IncBits(kept)
         IN  IF ~up THEN [bits |-> kept, top |-> x.top]
             ELSE IF Len(inc) = 53 THEN [bits |-> inc, top |-> x.top]
             ELSE [bits |-> SubSeq(inc, 1, 53), top |-> x.top + 1]

\* The power of two p with 2^p <= num / den < 2^(p+1).
Exponent(num, den) ==
    IF num >= den
    THEN CHOOSE p \in 0..31 : den * Pow2(p) <= num /\ num < 2 * den * Pow2(p)
    ELSE -(CHOOSE q \in 1..31 : den <= num * Pow2(q) /\ num * Pow2(q) < 2 * den)

\* The double num / den, for integers num > 0 and den > 0: the 54 bits of
\* floor(num * 2^(53 - p) / den), rounded with the remainder as sticky bit.
FDiv(num, den) ==
    LET top == Exponent(num, den)
        k == 53 - top
        scaled == IntLimbs(num * Pow2(k % 10)) \o [i \in 1..(k \div 10) |-> 0]
        d == LongDiv(scaled, den)
    IN  Round53([bits |-> LimbBits(d.q), top |-> top], d.r # 0)

\* The exact product x * 100.
Times100(x) ==
    LET prod == LimbBits(LongMul(BitLimbs(x.bits), 100, 0))
    IN  [bits |-> prod, top |-> x.top + Len(prod) - Len(x.bits)]

\* The double x * 100.
FMul100(x) == Round53(Times100(x), FALSE)

\* x rounded to the nearest integer, ties to even: numpy's rint, and the
\* rounding of Python's float formatting.
RoundHalfEven(x) ==
    LET n == x.top + 1
        len == Len(x.bits)
    IN  IF n < 0 THEN 0
        ELSE LET kept == BitsToInt(SubSeq(x.bits, 1, IF n < len THEN n ELSE len))
                         * Pow2(IF n > len THEN n - len ELSE 0)
                 guard == IF n + 1 <= len THEN x.bits[n + 1] ELSE 0
                 rest == \E k \in (n + 2)..len : x.bits[k] = 1
             IN  IF guard = 1 /\ (rest \/ kept % 2 = 1) THEN kept + 1 ELSE kept

RECURSIVE SeqsUpTo(_, _)
\* All sequences over S of length at most n.
SeqsUpTo(S, n) ==
    IF n = 0 THEN {<<>>}
    ELSE LET shorter == SeqsUpTo(S, n - 1)
         IN  shorter \cup {Append(s, x) : s \in {t \in shorter : Len(t) = n - 1}, x \in S}

---------------------------------------------------------------------------
(* The input table *)

ZCols == <<"APC_z_score", "PDP_z_score", "LP_z_score", "NNPP_z_score">>

PartyCols == <<"APC", "PDP", "LP", "NNPP">>

Columns ==
    {"PU-Code", "PU-Name", "LGA", "Latitude", "Longitude", "Total_Votes",
     "Registered_Voters", "Accredited_Voters", "Accredited_Ratio",
     "HDBSCAN_Cluster", "color", "Global_Composite_Score"}
    \cup Range(ZCols) \cup Range(PartyCols)

\* A complete, well-formed row; the families below vary some of its cells.
DefaultRow ==
    ("PU-Code" :> "P1") @@ ("PU-Name" :> "A") @@ ("LGA" :> "L1") @@
    ("Latitude" :> Num(9)) @@ ("Longitude" :> Num(7)) @@
    ("Total_Votes" :> 6) @@ ("Registered_Voters" :> 10) @@
    ("Accredited_Voters" :> 5) @@ ("Accredited_Ratio" :> Num(4)) @@
    ("HDBSCAN_Cluster" :> 0) @@ ("color" :> "red") @@
    ("Global_Composite_Score" :> Num(3)) @@
    ("APC_z_score" :> Num(1)) @@ ("PDP_z_score" :> Num(0)) @@
    ("LP_z_score" :> Num(-1)) @@ ("NNPP_z_score" :> Num(2)) @@
    ("APC" :> 3) @@ ("PDP" :> 1) @@ ("LP" :> 2) @@ ("NNPP" :> 0)

Codes == {"P1", "P2"}

Names == {"A", "B"}

\* In the order groupby sorts its keys.
LGAs == <<"L1", "L2">>

\* Scores in eighths: -0.125 and 0.375, both ties of the rounding to 2
\* decimals, as is their mean 0.125.
Scores == {NaN, Num(-1), Num(3)}

\* The scores of the i-th row of a ranking table: missing, 0.375 (shared with
\* other rows) or i/8 (its own).
RankScores(i) == {NaN, Num(3), Num(i)}

Coords == {NaN, Num(9)}

\* Z-score vectors (APC, PDP, LP, NNPP) of a row.
ZVecs == {<<Num(1), Num(0), Num(-1), Num(2)>>,
          <<NaN, Num(2), Num(2), NaN>>,
          <<Num(-3), NaN, Num(0), Num(1)>>}

\* Vote vectors (APC, PDP, LP, NNPP) of a row.
VoteVecs == {<<3, 1, 2, 0>>, <<0, 0, 0, 0>>, <<7, 4, 0, 5>>}

SetCells(row, cs) == cs @@ row

ZCells(zv) ==
    ("APC_z_score" :> zv[1]) @@ ("PDP_z_score" :> zv[2]) @@
    ("LP_z_score" :> zv[3]) @@ ("NNPP_z_score" :> zv[4])

VoteCells(v) ==
    ("APC" :> v[1]) @@ ("PDP" :> v[2]) @@ ("LP" :> v[3]) @@ ("NNPP" :> v[4])

\* Rows varying in what the KPI stage reads.
KpiRows ==
    {SetCells(DefaultRow, ("PU-Code" :> c) @@ ("Registered_Voters" :> ra[1])
                          @@ ("Accredited_Voters" :> ra[2])) :
        c \in Codes, ra \in {<<10, 5>>, <<0, 0>>, <<0, 5>>}}

\* Rows varying in what the map stage reads.
GeoRows ==
    {SetCells(DefaultRow, ("Latitude" :> la) @@ ("Longitude" :> lo)
                          @@ ("Global_Composite_Score" :> s)) :
        la \in Coords, lo \in {NaN, Num(7)}, s \in {NaN, Num(3)}}

\* Rows varying in what the reshape reads.
MeltRows ==
    {SetCells(DefaultRow, ("PU-Name" :> n) @@ ZCells(zv)) :
        n \in Names, zv \in ZVecs}

\* Rows varying in what the LGA rollup reads.
LgaRows ==
    {SetCells(DefaultRow, ("LGA" :> g) @@ ("Global_Composite_Score" :> s)) :
        g \in Range(LGAs), s \in Scores}

\* Rows varying in what the historical series reads.
HistRows == {SetCells(DefaultRow, VoteCells(v)) : v \in VoteVecs}

\* The i-th row of a ranking table: its own code and name (the row number),
\* a score s, and a z-score vector that has missing cells in every other row.
RankRow(i, s) ==
    SetCells(DefaultRow,
        ("PU-Code" :> ToString(i)) @@ ("PU-Name" :> ToString(i))
        @@ ("Global_Composite_Score" :> s)
        @@ ZCells(IF i % 2 = 0 THEN <<NaN, Num(i), Num(2), NaN>>
                  ELSE <<Num(1), Num(0), Num(-1), Num(i)>>))

RECURSIVE RankTablesOf(_)
\* The ranking tables of exactly n rows.
RankTablesOf(n) ==
    IF n = 0 THEN {<<>>}
    ELSE {Append(t, RankRow(n, s)) : t \in RankTablesOf(n - 1), s \in RankScores(n)}

RankTables == UNION {RankTablesOf(n) : n \in 0..MaxRankRows}

FullTable(rows) == [columns |-> Columns, rows |-> rows]

\* A table that lacks column c.
Without(rows, c) ==
    [columns |-> Columns \ {c},
     rows |-> [i \in 1..Len(rows) |-> [k \in Columns \ {c} |-> rows[i][k]]]]

SchemaRows == <<DefaultRow, SetCells(DefaultRow, ("PU-Code" :> "P2") @@ ("LGA" :> "L2"))>>

\* What the URL may serve: nothing (the download or the parse fails), or a CSV.
Unreachable == [columns |-> {}, rows |-> <<>>, ok |-> FALSE]

Served(t) == [columns |-> t.columns, rows |-> t.rows, ok |-> TRUE]

Remotes ==
    {Unreachable}
    \cup {Served(FullTable(rows)) :
            rows \in SeqsUpTo(KpiRows, MaxRows) \cup SeqsUpTo(GeoRows, MaxRows)
                     \cup SeqsUpTo(MeltRows, MaxRows) \cup SeqsUpTo(LgaRows, MaxLgaRows)
                     \cup SeqsUpTo(HistRows, MaxRows) \cup RankTables}
    \cup {Served(Without(SchemaRows, c)) : c \in Columns}

---------------------------------------------------------------------------
(* pandas and folium operations, as the script uses them *)

Column(rows, c) == [i \in DOMAIN rows |-> rows[i][c]]

RECURSIVE SumInt(_)
\* Series.sum() of an integer column.
SumInt(s) == IF s = <<>> THEN 0 ELSE SumInt(SubSeq(s, 1, Len(s) - 1)) + s[Len(s)]

DropNa(s) == SelectSeq(s, LAMBDA x : ~IsNaN(x))

RECURSIVE SumNum(_)
SumNum(s) == IF s = <<>> THEN 0 ELSE SumNum(SubSeq(s, 1, Len(s) - 1)) + Val(s[Len(s)])

\* Series.mean(): the sum and the count <<sum, count>> of the cells that are
\* not missing, which the mean divides; NaN when there is none.
MeanSkipNa(s) ==
    LET present == DropNa(s)
    IN  IF present = <<>> THEN NaN ELSE <<SumNum(present), Len(present)>>

RECURSIVE Unique(_)
\* The distinct values of s in order of first appearance.
Unique(s) ==
    IF s = <<>> THEN <<>>
    ELSE LET u == Unique(SubSeq(s, 1, Len(s) - 1))
             x == s[Len(s)]
         IN  IF x \in Range(u) THEN u ELSE Append(u, x)

NUniqueRowCount(s) == Len(s)

\* Series.nunique().
NUnique(s) == Len(Unique(s))

\* voter_turnout as the tile shows it, in hundredths of a percent: the
\* double accredited / registered, times 100 as a double, and the :.2f
\* format, which rounds the exact value of that double.  The operands are
\* numpy integers here (a table with rows), for which a zero divisor gives
\* nan or inf with a warning, not an exception.
VoterTurnout(accredited, registered) ==
    IF registered = 0
    THEN IF accredited = 0 THEN <<"nan">> ELSE <<"inf">>
    ELSE IF accredited = 0 THEN <<"pct", 0>>
    ELSE <<"pct", RoundHalfEven(Times100(FMul100(FDiv(accredited, registered))))>>

\* folium's validate_location, which Map and Marker apply to their location:
\* it raises ValueError on a NaN coordinate.
ValidLocation(loc) == ~IsNaN(loc[1]) /\ ~IsNaN(loc[2])

\* DataFrame.head(n).
HeadN(s, n) == SubSeq(s, 1, IF Len(s) < n THEN Len(s) ELSE n)

RECURSIVE PermSeqs(_)
\* Every arrangement of the set S as a sequence.
PermSeqs(S) ==
    IF S = {} THEN {<<>>}
    ELSE UNION {{<<x>> \o p : p \in PermSeqs(S \ {x})} : x \in S}

RECURSIVE DescOrders(_, _)
\* Every arrangement of the indices I in non-increasing order of v.
DescOrders(I, v) ==
    IF I = {} THEN {<<>>}
    ELSE LET top == {i \in I : \A j \in I : Val(v[j]) <= Val(v[i])}
         IN  {a \o b : a \in PermSeqs(top), b \in DescOrders(I \ top, v)}

\* The row orders sort_values(ascending=False) may return for the key column
\* v: pandas' nargsort argsorts the present keys with numpy's "quicksort"
\* (the default kind, not a stable sort: the order of equal keys is whatever
\* the numpy build's algorithm leaves) and appends the rows with a missing
\* key in their original order (na_position="last").
SortValuesDesc(v) ==
    LET present == {i \in DOMAIN v : ~IsNaN(v[i])}
        missing == SelectSeq([i \in DOMAIN v |-> i], LAMBDA i : IsNaN(v[i]))
    IN  {o \o missing : o \in DescOrders(present, v)}

Take(rows, order) == [k \in DOMAIN order |-> rows[order[k]]]

\* A row of the long table: var_name="Party", value_name="Z-Score".
LongRow(id, name, party, z) == (id :> name) @@ ("Party" :> party) @@ ("Z-Score" :> z)

MeltDropNa(rows, id, value_vars) ==
    LET m == Len(rows)
        all == [k \in 1..(m * Len(value_vars)) |->
                  LET c == ((k - 1) \div m) + 1
                      i == ((k - 1) % m) + 1
                  IN  LongRow(id, rows[i][id], value_vars[c], rows[i][value_vars[c]])]
    IN  SelectSeq(all, LAMBDA t : ~IsNaN(t["Z-Score"]))

\* DataFrame.melt(id_vars=id, value_vars=...): for each value column in
\* turn, one (id, Party, Z-Score) row per input row.
Melt(rows, id, value_vars) ==
    LET m == Len(rows)
    IN  [k \in 1..(m * Len(value_vars)) |->
            LET c == ((k - 1) \div m) + 1
                i == ((k - 1) % m) + 1
            IN  LongRow(id, rows[i][id], value_vars[c], rows[i][value_vars[c]])]

\* Series.round(2) of a mean of scores, in hundredths: the mean is the
\* double sum / count, the sum being mean[1] eighths; numpy rounds it as
\* rint(mean * 100) / 100, the product a double again.
Round2(mean) ==
    IF IsNaN(mean) THEN NaN
    ELSE IF mean[1] = 0 THEN Num(0)
    ELSE LET abs == IF mean[1] < 0 THEN -mean[1] ELSE mean[1]
             v == RoundHalfEven(FMul100(FDiv(abs, 8 * mean[2])))
         IN  Num(IF mean[1] < 0 THEN -v ELSE v)

GroupMeanZeroFill(rows, g) ==
    LET col == Column(SelectSeq(rows, LAMBDA r : r["LGA"] = g), "Global_Composite_Score")
    IN  <<SumNum(DropNa(col)), Len(col)>>

\* groupby("LGA")["Global_Composite_Score"].mean() for the group g.
GroupMean(rows, g) ==
    MeanSkipNa(Column(SelectSeq(rows, LAMBDA r : r["LGA"] = g), "Global_Composite_Score"))

\* The group keys, sorted (groupby's sort=True).
GroupKeys(rows) == SelectSeq(LGAs, LAMBDA g : \E i \in DOMAIN rows : rows[i]["LGA"] = g)

FillNaNone(col, v) == col

\* fillna(v) on one column.
FillNa(col, v) == [i \in DOMAIN col |-> IF IsNaN(col[i]) THEN Num(v) ELSE col[i]]

\* The DataFrame literal of the historical series: None where a party has no
\* legacy total, the live sum of the party's column for 2023.
HistoricalLiteral(rows) ==
    [Year |-> <<2011, 2015, 2019, 2023>>,
     APC  |-> <<NaN, Num(528620), Num(365229), Num(SumInt(Column(rows, "APC")))>>,
     PDP  |-> <<Num(484758), Num(303376), Num(366690), Num(SumInt(Column(rows, "PDP")))>>,
     LP   |-> <<NaN, NaN, Num(360), Num(SumInt(Column(rows, "LP")))>>,
     NNPP |-> <<NaN, NaN, Num(430), Num(SumInt(Column(rows, "NNPP")))>>]

---------------------------------------------------------------------------
(* The rendering pass *)

NoKpi == [total_polling_units |-> 0, total_votes |-> 0, total_registered |-> 0,
          total_accredited |-> 0, voter_turnout |-> <<"none">>]

NoMap == [location |-> <<NaN, NaN>>, markers |-> <<>>, heat_data |-> <<>>]

NoHist == [Year |-> <<>>, APC |-> <<>>, PDP |-> <<>>, LP |-> <<>>, NNPP |-> <<>>]

Init ==
    /\ remote \in Remotes
    /\ df = [columns |-> {}, rows |-> <<>>]
    /\ pc = "load"
    /\ err = "none"
    /\ rendered = <<>>
    /\ kpi = NoKpi
    /\ map = NoMap
    /\ top_5_outliers = <<>>
    /\ z_df = <<>>
    /\ lga_comparison = <<>>
    /\ historical_election_data = NoHist

\* An uncaught exception: the pass ends, what was emitted stays.
Abort(e) ==
    /\ pc' = "aborted"
    /\ err' = e

\* df = load_data(): read_csv raises when the file cannot be fetched or parsed.
Load ==
    /\ pc = "load"
    /\ IF ~remote.ok
       THEN Abort("LoadError") /\ UNCHANGED df
       ELSE /\ df' = [columns |-> remote.columns, rows |-> remote.rows]
            /\ pc' = "kpi"
            /\ UNCHANGED err
    /\ UNCHANGED <<remote, rendered, kpi, map, top_5_outliers, z_df,
                   lga_comparison, historical_election_data>>

KpiCols == {"PU-Code", "Total_Votes", "Registered_Voters", "Accredited_Voters"}

\* Section 2, KPI metrics.  A header-only CSV loads as object columns, whose
\* sums are the Python int 0, and 0 / 0 on Python ints raises.
Kpi ==
    /\ pc = "kpi"
    /\ IF ~(KpiCols \subseteq df.columns)
       THEN Abort("KeyError") /\ UNCHANGED <<kpi, rendered>>
       ELSE IF df.rows = <<>>
       THEN Abort("ZeroDivisionError") /\ UNCHANGED <<kpi, rendered>>
       ELSE /\ kpi' = [total_polling_units |-> NUnique(Column(df.rows, "PU-Code")),
                       total_votes |-> SumInt(Column(df.rows, "Total_Votes")),
                       total_registered |-> SumInt(Column(df.rows, "Registered_Voters")),
                       total_accredited |-> SumInt(Column(df.rows, "Accredited_Voters")),
                       voter_turnout |->
                           VoterTurnout(SumInt(Column(df.rows, "Accredited_Voters")),
                                        SumInt(Column(df.rows, "Registered_Voters")))]
            /\ rendered' = Append(rendered, "kpi")
            /\ pc' = "map"
            /\ UNCHANGED err
    /\ UNCHANGED <<remote, df, map, top_5_outliers, z_df, lga_comparison,
                   historical_election_data>>

PopupCols == {"PU-Name", "HDBSCAN_Cluster", "Total_Votes", "Accredited_Ratio",
              "Global_Composite_Score", "color"}

\* One folium.Marker per row of df, none skipped.
Markers(rows) ==
    [i \in DOMAIN rows |->
        [location |-> <<rows[i]["Latitude"], rows[i]["Longitude"]>>,
         popup |-> <<rows[i]["PU-Name"], rows[i]["HDBSCAN_Cluster"],
                     rows[i]["Total_Votes"], rows[i]["Accredited_Ratio"],
                     rows[i]["Global_Composite_Score"]>>,
         color |-> rows[i]["color"]]]

\* df[[Latitude, Longitude, Global_Composite_Score]].dropna().values.tolist()
HeatData(rows) ==
    LET complete == SelectSeq(rows, LAMBDA r :
                        /\ ~IsNaN(r["Latitude"])
                        /\ ~IsNaN(r["Longitude"])
                        /\ ~IsNaN(r["Global_Composite_Score"]))
    IN  [i \in DOMAIN complete |->
            <<complete[i]["Latitude"], complete[i]["Longitude"],
              complete[i]["Global_Composite_Score"]>>]

MapCenter(rows) ==
    <<MeanSkipNa(Column(rows, "Latitude")), MeanSkipNa(Column(rows, "Longitude"))>>

\* Section 3, the map: the base map, one marker per row, the heat layer, then
\* st_folium.
Map ==
    /\ pc = "map"
    /\ IF ~({"Latitude", "Longitude"} \subseteq df.columns)
       THEN Abort("KeyError") /\ UNCHANGED <<map, rendered>>
       ELSE IF ~ValidLocation(MapCenter(df.rows))
       THEN Abort("ValueError") /\ UNCHANGED <<map, rendered>>
       ELSE IF df.rows # <<>> /\ ~(PopupCols \subseteq df.columns)
       THEN Abort("KeyError") /\ UNCHANGED <<map, rendered>>
       ELSE IF \E i \in DOMAIN df.rows : ~ValidLocation(Markers(df.rows)[i].location)
       THEN Abort("ValueError") /\ UNCHANGED <<map, rendered>>
       ELSE IF "Global_Composite_Score" \notin df.columns
       THEN Abort("KeyError") /\ UNCHANGED <<map, rendered>>
       ELSE /\ map' = [location |-> MapCenter(df.rows),
                       markers |-> Markers(df.rows),
                       heat_data |-> HeatData(df.rows)]
            /\ rendered' = Append(rendered, "map")
            /\ pc' = "rank"
            /\ UNCHANGED err
    /\ UNCHANGED <<remote, df, kpi, top_5_outliers, z_df, lga_comparison,
                   historical_election_data>>

TopNCols == {"PU-Name", "Total_Votes", "Accredited_Voters", "Accredited_Ratio",
             "Global_Composite_Score"} \cup Range(ZCols)

\* Section 4, first half: sort_values(...).head(5), then the table of it.
TopN ==
    /\ pc = "rank"
    /\ IF "Global_Composite_Score" \notin df.columns
       THEN Abort("KeyError") /\ UNCHANGED <<top_5_outliers, rendered>>
       ELSE \E order \in SortValuesDesc(Column(df.rows, "Global_Composite_Score")) :
            /\ top_5_outliers' = HeadN(Take(df.rows, order), 5)
            /\ IF ~(TopNCols \subseteq df.columns)
               THEN Abort("KeyError") /\ UNCHANGED rendered
               ELSE /\ rendered' = Append(rendered, "top_n")
                    /\ pc' = "melt"
                    /\ UNCHANGED err
    /\ UNCHANGED <<remote, df, kpi, map, z_df, lga_comparison,
                   historical_election_data>>

\* Section 4, second half: melt of the Top-5 rows, then the grouped bar chart.
MeltChart ==
    /\ pc = "melt"
    /\ IF ~(({"PU-Name"} \cup Range(ZCols)) \subseteq df.columns)
       THEN Abort("KeyError") /\ UNCHANGED <<z_df, rendered>>
       ELSE /\ z_df' = Melt(top_5_outliers, "PU-Name", ZCols)
            /\ rendered' = Append(rendered, "z_chart")
            /\ pc' = "lga"
            /\ UNCHANGED err
    /\ UNCHANGED <<remote, df, kpi, map, top_5_outliers, lga_comparison,
                   historical_election_data>>

\* The rollup before its sort: one (LGA, rounded mean) row per group key.
LgaMeans(rows) ==
    LET keys == GroupKeys(rows)
    IN  [k \in DOMAIN keys |->
            [LGA |-> keys[k],
             Global_Composite_Score |-> Round2(GroupMean(rows, keys[k]))]]

\* Section 5: groupby, mean, round(2), sort_values(ascending=False),
\* reset_index, then the bar chart.
LgaComparison ==
    /\ pc = "lga"
    /\ IF ~({"LGA", "Global_Composite_Score"} \subseteq df.columns)
       THEN Abort("KeyError") /\ UNCHANGED <<lga_comparison, rendered>>
       ELSE \E order \in SortValuesDesc(Column(LgaMeans(df.rows), "Global_Composite_Score")) :
            /\ lga_comparison' = Take(LgaMeans(df.rows), order)
            /\ rendered' = Append(rendered, "lga")
            /\ pc' = "hist"
            /\ UNCHANGED err
    /\ UNCHANGED <<remote, df, kpi, map, top_5_outliers, z_df,
                   historical_election_data>>

\* The historical series: the literal, then fillna(0, inplace=True).
HistoricalSeries(rows) ==
    LET lit == HistoricalLiteral(rows)
    IN  [Year |-> lit.Year,
         APC  |-> FillNa(lit.APC, 0),
         PDP  |-> FillNa(lit.PDP, 0),
         LP   |-> FillNa(lit.LP, 0),
         NNPP |-> FillNa(lit.NNPP, 0)]

\* Section 6: the historical series and its line chart.
Historical ==
    /\ pc = "hist"
    /\ IF ~(Range(PartyCols) \subseteq df.columns)
       THEN Abort("KeyError") /\ UNCHANGED <<historical_election_data, rendered>>
       ELSE /\ historical_election_data' = HistoricalSeries(df.rows)
            /\ rendered' = Append(rendered, "hist")
            /\ pc' = "done"
            /\ UNCHANGED err
    /\ UNCHANGED <<remote, df, kpi, map, top_5_outliers, z_df, lga_comparison>>

Next == Load \/ Kpi \/ Map \/ TopN \/ MeltChart \/ LgaComparison \/ Historical

Spec == Init /\ [][Next]_vars

---------------------------------------------------------------------------
(* Properties *)

Emitted(view) == \E k \in DOMAIN rendered : rendered[k] = view

Score(r) == r["Global_Composite_Score"]

Min(a, b) == IF a < b THEN a ELSE b

RECURSIVE SetSum(_, _)
\* The sum of f over the index set I.
SetSum(I, f) ==
    IF I = {} THEN 0
    ELSE LET i == CHOOSE j \in I : TRUE IN f[i] + SetSum(I \ {i}, f)

Scored(rows) == {i \in DOMAIN rows : ~IsNaN(Score(rows[i]))}

\* C1: the Top-5 ranking holds exactly min(5, number of rows with a score)
\* rows, none of them with a missing score, and every row with a score above
\* the lowest returned score is returned.
C1_TopNExcludesMissing ==
    Emitted("top_n") =>
        /\ Len(top_5_outliers) = Min(5, Cardinality(Scored(df.rows)))
        /\ \A k \in DOMAIN top_5_outliers : ~IsNaN(Score(top_5_outliers[k]))
        /\ \A k \in DOMAIN top_5_outliers :
              Cardinality({i \in Scored(df.rows) :
                              Val(Score(df.rows[i])) > Val(Score(top_5_outliers[k]))})
              = Cardinality({j \in Scored(top_5_outliers) :
                              Val(Score(top_5_outliers[j])) > Val(Score(top_5_outliers[k]))})

\* The one order that is descending by score, keeps rows with equal scores in
\* table order and puts rows without a score last, in table order.
IsStableDesc(order, v) ==
    \A a, b \in DOMAIN order :
        a < b =>
            LET i == order[a]
                j == order[b]
            IN  \/ IsNaN(v[j]) /\ (IsNaN(v[i]) => i < j)
                \/ ~IsNaN(v[i]) /\ ~IsNaN(v[j])
                   /\ (Val(v[i]) > Val(v[j]) \/ (Val(v[i]) = Val(v[j]) /\ i < j))

\* C2: the ranking is the first 5 rows of the table in stable descending
\* order of score: non-increasing, missing scores last, equal scores in the
\* order of the loaded table.
C2_StableRanking ==
    Emitted("top_n") =>
        \E order \in SortValuesDesc(Column(df.rows, "Global_Composite_Score")) :
            /\ IsStableDesc(order, Column(df.rows, "Global_Composite_Score"))
            /\ top_5_outliers = HeadN(Take(df.rows, order), 5)

\* C3: the long table has 4 x (number of Top-5 rows) rows of the columns
\* PU-Name, Party, Z-Score, and holds the (PU-Name, Party, Z-Score) of each
\* input row and value column as many times as input cells give it: no row
\* is dropped and a missing z-score stays missing.
C3_MeltShape ==
    Emitted("z_chart") =>
        /\ Len(z_df) = 4 * Len(top_5_outliers)
        /\ \A k \in DOMAIN z_df : DOMAIN z_df[k] = {"PU-Name", "Party", "Z-Score"}
        /\ \A i \in DOMAIN top_5_outliers, c \in 1..4 :
              Cardinality({k \in DOMAIN z_df :
                              /\ z_df[k]["Party"] = ZCols[c]
                              /\ z_df[k]["PU-Name"] = top_5_outliers[i]["PU-Name"]
                              /\ z_df[k]["Z-Score"] = top_5_outliers[i][ZCols[c]]})
              = Cardinality({j \in DOMAIN top_5_outliers :
                              /\ top_5_outliers[j]["PU-Name"] = top_5_outliers[i]["PU-Name"]
                              /\ top_5_outliers[j][ZCols[c]] = top_5_outliers[i][ZCols[c]]})

C3_Witness ==
    /\ Emitted("z_chart")
    /\ Len(top_5_outliers) = 5
    /\ \E k \in DOMAIN z_df : IsNaN(z_df[k]["Z-Score"])
    /\ \E k \in DOMAIN z_df : ~IsNaN(z_df[k]["Z-Score"])

\* C4: round trip of the reshape: the long rows of one (PU-Name, Party) pair
\* carry exactly the z-score of the input row and value column they come from.
C4_RoundTrip ==
    Emitted("z_chart") =>
        \A i \in DOMAIN top_5_outliers, c \in 1..4 :
            {z_df[k]["Z-Score"] :
                k \in {n \in DOMAIN z_df :
                          /\ z_df[n]["PU-Name"] = top_5_outliers[i]["PU-Name"]
                          /\ z_df[n]["Party"] = ZCols[c]}}
            = {top_5_outliers[i][ZCols[c]]}

\* The rows of LGA g that have a score.
ScoredIn(g) == {i \in Scored(df.rows) : df.rows[i]["LGA"] = g}

\* v (in hundredths) is the mean of the scores (in eighths) of the rows I
\* rounded to 2 decimals, to either neighbour when the mean lies halfway:
\* |100 * sum / (8 * n) - v| <= 1/2.
IsRoundedMean(v, I) ==
    LET sum == SetSum(I, [i \in I |-> Val(Score(df.rows[i]))])
        n == Cardinality(I)
        d == 25 * sum - 2 * n * v
    IN  -n <= d /\ d <= n

\* C5: the rollup has one row per distinct LGA; a row's value is the mean of
\* the LGA's non-missing scores rounded to 2 decimals, or NaN when the LGA has
\* none; the values are non-increasing, NaN rows last.
C5_LgaRollup ==
    Emitted("lga") =>
        /\ {lga_comparison[k].LGA : k \in DOMAIN lga_comparison}
           = {df.rows[i]["LGA"] : i \in DOMAIN df.rows}
        /\ Len(lga_comparison) = Cardinality({df.rows[i]["LGA"] : i \in DOMAIN df.rows})
        /\ \A k \in DOMAIN lga_comparison :
              LET g == lga_comparison[k].LGA
                  v == lga_comparison[k].Global_Composite_Score
              IN  IF ScoredIn(g) = {} THEN IsNaN(v)
                  ELSE ~IsNaN(v) /\ IsRoundedMean(Val(v), ScoredIn(g))
        /\ \A k, l \in DOMAIN lga_comparison :
              k < l =>
                  LET v == lga_comparison[k].Global_Composite_Score
                      w == lga_comparison[l].Global_Composite_Score
                  IN  IsNaN(w) \/ (~IsNaN(v) /\ Val(v) >= Val(w))

\* An LGA with mean 0.25 over two scores and a missing one, then an LGA whose
\* scores are all missing.
C5_Witness ==
    /\ Emitted("lga")
    /\ Len(lga_comparison) = 2
    /\ lga_comparison[1].Global_Composite_Score = Num(12)
    /\ IsNaN(lga_comparison[2].Global_Composite_Score)
    /\ \E i \in DOMAIN df.rows :
          df.rows[i]["LGA"] = lga_comparison[1].LGA /\ IsNaN(Score(df.rows[i]))

\* C6: the turnout computation never ends the pass in an arithmetic fault.
C6_TurnoutDefined == ~(pc = "aborted" /\ err = "ZeroDivisionError")

PartySum(c) == SetSum(DOMAIN df.rows, [i \in DOMAIN df.rows |-> df.rows[i][c]])

\* C7: the historical series has the years 2011, 2015, 2019, 2023; an absent
\* legacy entry is 0, a present one its literal, and 2023 is the sum of the
\* party's column over the loaded table.
C7_HistoricalSeries ==
    Emitted("hist") =>
        historical_election_data =
            [Year |-> <<2011, 2015, 2019, 2023>>,
             APC  |-> <<Num(0), Num(528620), Num(365229), Num(PartySum("APC"))>>,
             PDP  |-> <<Num(484758), Num(303376), Num(366690), Num(PartySum("PDP"))>>,
             LP   |-> <<Num(0), Num(0), Num(360), Num(PartySum("LP"))>>,
             NNPP |-> <<Num(0), Num(0), Num(430), Num(PartySum("NNPP"))>>]

C7_Witness ==
    /\ Emitted("hist")
    /\ Len(df.rows) >= 2
    /\ historical_election_data.APC[4] = Num(10)
    /\ historical_election_data.LP[4] = Num(2)
    /\ historical_election_data.APC[1] = Num(0)

\* C8: when the load fails or the table lacks a required column, no derived
\* view is emitted.
C8_AllOrNothing ==
    (~remote.ok \/ remote.columns # Columns) => rendered = <<>>

\* C9: a table with every column and at least one row, whatever cells are
\* missing in its rows, never aborts the pass.
C9_MissingAbsorbed ==
    (remote.ok /\ remote.columns = Columns /\ remote.rows # <<>>) => pc # "aborted"

\* C10: total_polling_units is the number of distinct PU-Code values of the
\* table, and the KPI stage leaves the loaded table as it was served.
C10_TotalPollingUnits ==
    Emitted("kpi") =>
        /\ kpi.total_polling_units
           = Cardinality({df.rows[i]["PU-Code"] : i \in DOMAIN df.rows})
        /\ df = [columns |-> remote.columns, rows |-> remote.rows]

\* Three rows, two of them with the same code.
C10_Witness ==
    /\ Emitted("kpi")
    /\ Len(df.rows) = 3
    /\ kpi.total_polling_units = 2
    /\ df.rows[1]["PU-Code"] = df.rows[3]["PU-Code"]
    /\ df.rows[1]["PU-Code"] # df.rows[2]["PU-Code"]

===========================================================================
